---- MODULE Spec2Model ----
(***************************************************************************)
(* State-machine model of cinepicker: the incremental pagination engine    *)
(* (the useInfiniteScroll hook and the two views that consume it), the     *)
(* TMDB fetch client and its proxy routes and server pages, the store      *)
(* routes (watchlist, review likes, reviews) and the SearchModal.          *)
(***************************************************************************)
EXTENDS Integers, Sequences, FiniteSets, TLC

\* ------------------------------------------------------------------------
\* Bounds of the model
\* ------------------------------------------------------------------------
\* number of distinct filter fingerprints (values of JSON.stringify(queryParams))
NumFingerprints == 2
\* largest total_pages a response carries
MaxPages == 2
\* largest number of items in one page of results
MaxItems == 1
\* filter changes + reset() calls + mount explored in one behaviour
MaxEpochs == 2
\* HTTP requests issued by one hook instance in one behaviour
MaxRequests == 3

Fingerprints == 1..NumFingerprints
\* values of total_results the upstream reports
TotalResultsSet == {0, 50}
\* the two components that call useInfiniteScroll
Views == {"ContentGrid", "TrendingContent"}

\* ------------------------------------------------------------------------
\* Values
\* ------------------------------------------------------------------------
\* error === null
NoError == "null"
\* message thrown for a non-OK response
NotOkMessage == "fetch_not_ok_message"
\* err.message of a rejected fetch()
NetworkMessage == "network_error_message"
\* err.message of the TypeError raised by result.total_results of null
NullBodyMessage == "cannot_read_properties_of_null_message"

VARIABLES
  view,              \* which component uses the hook
  mounted,           \* the component is mounted (mount effects have run)
  queryString,       \* JSON.stringify(queryParams) of the latest render
  data,              \* useState: accumulated items
  page,              \* useState: last page loaded
  isLoading,         \* useState
  isInitialLoading,  \* useState
  hasMore,           \* useState
  error,             \* useState
  totalResults,      \* useState
  isFetchingRef,     \* useRef: in-flight guard
  inflight,          \* HTTP requests issued and not yet answered
  sentinel,          \* the sentinel <div ref={observerRef}> is in the DOM
  observer,          \* the connected IntersectionObserver and its closure
  effectDeps,        \* dependency values of the observer effect's last run
  epoch,             \* history: number of epoch rotations so far
  issued,            \* history: every request issued, with its epoch
  loaded,            \* history: successful responses applied in this epoch
  epochFailed,       \* history: a failure was applied in this epoch
  lastEvent,         \* history: the operation that produced this state
  renderTree,        \* whether React can render the queued state updates
  env,               \* fetch client: process.env.TMDB_API_KEY
  call,              \* fetch client: the call made by the last wrapper
  outcome,           \* fetch client: how that call ended
  thrown,            \* fetch client: the error that call threw, if any
  httpLog,           \* fetch client: upstream requests issued
  asset,             \* asset-URL builders: the last call and its result
  request,           \* proxy routes: the last request handled
  response,          \* proxy routes: the response to it
  pageOut,           \* server pages: how the last page function ended
  watchlist,         \* store: rows of the Watchlist table
  reviewLikes,       \* store: rows of the ReviewLike table
  reviews,           \* store: rows of the Review table
  reqs,              \* store routes: the route handlers' runs
  isSearchOpen,      \* SearchModal: useAppStore().isSearchOpen
  modalQuery,        \* SearchModal: useState query, the input's value
  modalResults,      \* SearchModal: useState results, as displayed
  modalIsLoading,    \* SearchModal: useState isLoading
  debounceRef,       \* SearchModal: useRef, the pending debounce timer
  searches,          \* SearchModal: performSearch calls awaiting fetch()
  lastSearch         \* history: the query issued last, and what followed

hookVars == <<view, mounted, queryString, data, page, isLoading,
              isInitialLoading, hasMore, error, totalResults, isFetchingRef,
              inflight, sentinel, observer, effectDeps, epoch, issued,
              loaded, epochFailed, lastEvent, renderTree>>
clientVars == <<env, call, outcome, thrown, httpLog>>
serverVars == <<asset, request, response, pageOut>>
storeVars == <<watchlist, reviewLikes, reviews, reqs>>
modalVars == <<isSearchOpen, modalQuery, modalResults, modalIsLoading, debounceRef,
               searches, lastSearch>>
vars == <<hookVars, clientVars, serverVars, storeVars, modalVars>>

\* ------------------------------------------------------------------------
\* Pagination engine: helpers
\* ------------------------------------------------------------------------
\* one item of a page of results, tagged with the request it answers
Item(fp, pg, ix) == [fp |-> fp, pg |-> pg, ix |-> ix]

\* result.results of the response to page pg under fingerprint fp, n items
Results(fp, pg, n) == [i \in 1..n |-> Item(fp, pg, i)]

\* whether the component renders <div ref={observerRef}> for this state
SentinelRendered(v, initialLoading, err, items) ==
  IF v = "ContentGrid"
  THEN ~initialLoading /\ err = NoError /\ Len(items) > 0
  ELSE TRUE

NoObserver == [attached |-> FALSE, page |-> 0, hasMore |-> FALSE, qs |-> 0]

Event(kind, pg, fp, reset, tp, iss) ==
  [kind |-> kind, page |-> pg, fp |-> fp, isReset |-> reset,
   total_pages |-> tp, issued |-> iss]

Request(pageNum, isReset, qs, ep) ==
  [page |-> pageNum, isReset |-> isReset, qs |-> qs, epoch |-> ep]

\* variant of the in-flight guard that lets a page-1 reset fetch through
fetchDataGuardSkippedOnReset(pageNum, isReset) == isReset \/ ~isFetchingRef

\* "if (isFetchingRef.current) return;"
fetchDataGuard(pageNum, isReset) == ~isFetchingRef

\* variant of fetchData that forgets setIsLoading(true)
fetchDataWithoutLoadingFlag(pageNum, isReset, qs, ep) ==
  IF fetchDataGuard(pageNum, isReset)
  THEN /\ isFetchingRef' = TRUE
       /\ isLoading' = isLoading
       /\ error' = NoError
       /\ inflight' = Append(inflight, Request(pageNum, isReset, qs, ep))
       /\ issued' = Append(issued, [epoch |-> ep, page |-> pageNum])
  ELSE UNCHANGED <<isFetchingRef, isLoading, error, inflight, issued>>

\* fetchData up to its await: the guard, the flags and the request
fetchData(pageNum, isReset, qs, ep) ==
  IF fetchDataGuard(pageNum, isReset)
  THEN /\ isFetchingRef' = TRUE
       /\ isLoading' = TRUE
       /\ error' = NoError
       /\ inflight' = Append(inflight, Request(pageNum, isReset, qs, ep))
       /\ issued' = Append(issued, [epoch |-> ep, page |-> pageNum])
  ELSE UNCHANGED <<isFetchingRef, isLoading, error, inflight, issued>>

\* the observer effect: observe the sentinel with the values of this render
ObserverEffect(target, qs, more, pg) ==
  IF target
  THEN [attached |-> TRUE, page |-> pg, hasMore |-> more, qs |-> qs]
  ELSE NoObserver

Deps(qs, more, pg) == [qs |-> qs, hasMore |-> more, page |-> pg]

\* ------------------------------------------------------------------------
\* Pagination engine: operations
\* ------------------------------------------------------------------------
HookInit ==
  /\ view \in Views
  /\ mounted = FALSE
  /\ queryString \in Fingerprints
  /\ data = <<>>
  /\ page = 1
  /\ isLoading = FALSE
  /\ isInitialLoading = TRUE
  /\ hasMore = TRUE
  /\ error = NoError
  /\ totalResults = 0
  /\ isFetchingRef = FALSE
  /\ inflight = <<>>
  /\ sentinel = FALSE
  /\ observer = NoObserver
  /\ effectDeps = Deps(0, TRUE, 1)
  /\ epoch = 0
  /\ issued = <<>>
  /\ loaded = <<>>
  /\ epochFailed = FALSE
  /\ lastEvent = Event("init", 0, 0, FALSE, 0, FALSE)
  /\ renderTree = "ok"

ClientIdle ==
  /\ call = [wrapper |-> "none", endpoint |-> <<>>, params |-> <<>>]
  /\ outcome = "none"
  /\ thrown = [name |-> "none"]
  /\ httpLog = <<>>

ServerIdle ==
  /\ asset = [fn |-> "none"]
  /\ request = [route |-> "none"]
  /\ response = [status |-> 0]
  /\ pageOut = [page |-> "none"]

\* the store routes are not in use: empty tables, no handler running
StoreIdle ==
  /\ watchlist = {}
  /\ reviewLikes = {}
  /\ reviews = {}
  /\ reqs = <<>>

\* the SearchModal as constructed: closed, nothing typed, nothing pending
ModalIdle ==
  /\ isSearchOpen = FALSE
  /\ modalQuery = <<>>
  /\ modalResults = <<>>
  /\ modalIsLoading = FALSE
  /\ debounceRef = <<>>
  /\ searches = <<>>
  /\ lastSearch = [issued |-> FALSE, n |-> 0, query |-> <<>>,
                   cleared |-> FALSE, outcome |-> "none"]

\* first render and its effects: the filter effect, then the observer effect
Mount ==
  /\ ~mounted
  /\ mounted' = TRUE
  /\ epoch' = epoch + 1
  /\ data' = <<>>
  /\ page' = 1
  /\ hasMore' = TRUE
  /\ isInitialLoading' = TRUE
  /\ fetchData(1, TRUE, queryString, epoch')
  /\ sentinel' = SentinelRendered(view, isInitialLoading, error, data)
  /\ observer' = ObserverEffect(sentinel', queryString, hasMore, page)
  /\ effectDeps' = Deps(queryString, hasMore, page)
  /\ loaded' = <<>>
  /\ epochFailed' = FALSE
  /\ lastEvent' = Event("mount", 1, queryString, TRUE, 0,
                        fetchDataGuard(1, TRUE))
  /\ UNCHANGED <<renderTree, view, queryString, totalResults>>

\* the filter effect after a render with a new queryString, then the
\* observer effect of the same render (fetchData is a new function)
FilterChange(f) ==
  /\ mounted
  /\ renderTree = "ok"
  /\ f # queryString
  /\ epoch < MaxEpochs
  /\ Len(issued) < MaxRequests
  /\ queryString' = f
  /\ epoch' = epoch + 1
  /\ data' = <<>>
  /\ page' = 1
  /\ hasMore' = TRUE
  /\ isInitialLoading' = TRUE
  /\ fetchData(1, TRUE, f, epoch')
  /\ sentinel' = SentinelRendered(view, isInitialLoading, error, data)
  /\ observer' = ObserverEffect(sentinel', f, hasMore, page)
  /\ effectDeps' = Deps(f, hasMore, page)
  /\ loaded' = <<>>
  /\ epochFailed' = FALSE
  /\ lastEvent' = Event("filter", 1, f, TRUE, 0, fetchDataGuard(1, TRUE))
  /\ UNCHANGED <<renderTree, view, mounted, totalResults>>

\* reset(): same state reset, fetchData of the latest render
reset ==
  /\ mounted
  /\ epoch < MaxEpochs
  /\ Len(issued) < MaxRequests
  /\ epoch' = epoch + 1
  /\ data' = <<>>
  /\ page' = 1
  /\ hasMore' = TRUE
  /\ isInitialLoading' = TRUE
  /\ fetchData(1, TRUE, queryString, epoch')
  /\ loaded' = <<>>
  /\ epochFailed' = FALSE
  /\ lastEvent' = Event("reset", 1, queryString, TRUE, 0,
                        fetchDataGuard(1, TRUE))
  /\ UNCHANGED <<renderTree, view, mounted, queryString, totalResults, sentinel,
                 observer, effectDeps>>

\* "entry.isIntersecting && hasMore && !isFetchingRef.current"
Trigger(isIntersecting) ==
  isIntersecting /\ observer.hasMore /\ ~isFetchingRef

\* the IntersectionObserver callback, with the page / hasMore / fetchData
\* captured when the observer was created
IntersectionCallback(isIntersecting) ==
  /\ mounted
  /\ observer.attached
  /\ Len(issued) < MaxRequests
  /\ IF Trigger(isIntersecting)
     THEN fetchData(observer.page + 1, FALSE, observer.qs, epoch)
     ELSE UNCHANGED <<isFetchingRef, isLoading, error, inflight, issued>>
  /\ lastEvent' = Event("sentinel", observer.page + 1, observer.qs, FALSE, 0,
                        Trigger(isIntersecting)
                          /\ fetchDataGuard(observer.page + 1, FALSE))
  /\ UNCHANGED <<renderTree, view, mounted, queryString, data, page, isInitialLoading,
                 hasMore, totalResults, sentinel, observer, effectDeps,
                 epoch, loaded, epochFailed>>

RemoveAt(s, i) == SubSeq(s, 1, i - 1) \o SubSeq(s, i + 1, Len(s))

\* variant of the hasMore computation with an off-by-one comparison
HasMoreAfterInclusive(pageNum, total_pages) == pageNum <= total_pages

\* "setHasMore(pageNum < result.total_pages)"
HasMoreAfter(pageNum, total_pages) == pageNum < total_pages

\* "setData((prev) => isReset ? result.results : [...prev, ...result.results])"
Accumulate(prev, results, isReset) ==
  IF isReset THEN results ELSE prev \o results

\* variant of the "finally" block that leaves the initial-loading flag up
FinallyKeepsInitialLoading ==
  /\ isLoading' = FALSE
  /\ isInitialLoading' = isInitialLoading
  /\ isFetchingRef' = FALSE

\* the "finally" block of fetchData
Finally ==
  /\ isLoading' = FALSE
  /\ isInitialLoading' = FALSE
  /\ isFetchingRef' = FALSE

\* an OK response with a paginated body arrives: the rest of the try block
\* and the finally block
RespondOk(i, n, total_pages, total_results) ==
  /\ i \in 1..Len(inflight)
  /\ LET r == inflight[i]
         results == Results(r.qs, r.page, n)
     IN /\ data' = Accumulate(data, results, r.isReset)
        /\ totalResults' = total_results
        /\ hasMore' = HasMoreAfter(r.page, total_pages)
        /\ page' = r.page
        /\ loaded' = Append(loaded, [page |-> r.page, n |-> n, qs |-> r.qs,
                                  epoch |-> r.epoch])
        /\ lastEvent' = Event("ok", r.page, r.qs, r.isReset, total_pages,
                              FALSE)
                         @@ [n |-> n, total_results |-> total_results]
  /\ Finally
  /\ inflight' = RemoveAt(inflight, i)
  /\ UNCHANGED <<renderTree, view, mounted, queryString, error, sentinel, observer,
                 effectDeps, epoch, issued, epochFailed>>

\* variant of the catch block that also gives up on further pages
FailureHasMoreStops == FALSE

\* the catch block leaves hasMore alone
FailureHasMore == hasMore

\* fetch() rejects, or the response is not OK: the catch block and the
\* finally block
RespondFail(i, message) ==
  /\ i \in 1..Len(inflight)
  /\ LET r == inflight[i]
     IN lastEvent' = Event("fail", r.page, r.qs, r.isReset, 0, FALSE)
  /\ error' = message
  /\ hasMore' = FailureHasMore
  /\ Finally
  /\ inflight' = RemoveAt(inflight, i)
  /\ epochFailed' = TRUE
  /\ UNCHANGED <<renderTree, view, mounted, queryString, data, page, totalResults,
                 sentinel, observer, effectDeps, epoch, issued, loaded>>

\* an OK response whose body is JSON null arrives: setData queues its
\* updater (React runs it at the next render), result.total_results throws a
\* TypeError inside the try block, then the catch and finally blocks
RespondNull(i) ==
  /\ i \in 1..Len(inflight)
  /\ LET r == inflight[i]
     IN lastEvent' = Event("null", r.page, r.qs, r.isReset, 0, FALSE)
  /\ renderTree' = "updaterThrows"
  /\ error' = NullBodyMessage
  /\ Finally
  /\ inflight' = RemoveAt(inflight, i)
  /\ epochFailed' = TRUE
  /\ UNCHANGED <<view, mounted, queryString, data, page, hasMore,
                 totalResults, sentinel, observer, effectDeps, epoch, issued,
                 loaded>>

\* React renders with the updater of a null body in the queue: the updater
\* reads result.results of null and the render throws
RenderThrows ==
  /\ mounted
  /\ renderTree = "updaterThrows"
  /\ renderTree' = "crashed"
  /\ lastEvent' = Event("crash", page, queryString, FALSE, 0, FALSE)
  /\ UNCHANGED <<view, mounted, queryString, data, page, isLoading,
                 isInitialLoading, hasMore, error, totalResults,
                 isFetchingRef, inflight, sentinel, observer, effectDeps,
                 epoch, issued, loaded, epochFailed>>

\* React commits a render of the pending state: the sentinel is mounted or
\* unmounted with the view, and the observer effect runs again when one of
\* [fetchData, hasMore, page, enabled] differs from its last run
Render ==
  /\ mounted
  /\ renderTree = "ok"
  /\ \/ Deps(queryString, hasMore, page) # effectDeps
     \/ SentinelRendered(view, isInitialLoading, error, data) # sentinel
  /\ sentinel' = SentinelRendered(view, isInitialLoading, error, data)
  /\ IF Deps(queryString, hasMore, page) # effectDeps
     THEN /\ observer' = ObserverEffect(sentinel', queryString, hasMore, page)
          /\ effectDeps' = Deps(queryString, hasMore, page)
     ELSE /\ observer' = IF sentinel' THEN observer ELSE NoObserver
          /\ UNCHANGED effectDeps
  /\ lastEvent' = Event("render", page, queryString, FALSE, 0, FALSE)
  /\ UNCHANGED <<renderTree, view, mounted, queryString, data, page, isLoading,
                 isInitialLoading, hasMore, error, totalResults,
                 isFetchingRef, inflight, epoch, issued, loaded, epochFailed>>

\* nothing of the hook runs once the render has thrown (the component is
\* replaced by the error boundary)
HookNext ==
  /\ renderTree # "crashed"
  /\ \/ Mount
     \/ \E f \in Fingerprints : FilterChange(f)
     \/ reset
     \/ \E b \in BOOLEAN : IntersectionCallback(b)
     \/ \E i \in 1..MaxRequests, n \in 0..MaxItems, tp \in 0..MaxPages,
           tr \in TotalResultsSet : RespondOk(i, n, tp, tr)
     \/ \E i \in 1..MaxRequests, m \in {NotOkMessage, NetworkMessage} :
           RespondFail(i, m)
     \/ \E i \in 1..MaxRequests : RespondNull(i)
     \/ Render
     \/ RenderThrows

\* ------------------------------------------------------------------------
\* TMDB fetch client
\* ------------------------------------------------------------------------
\* upstream calls explored in one behaviour
MaxCalls == 1
\* page numbers passed to the list wrappers
MaxPageArg == 2

\* "next: { revalidate: 3600, ...options.next }"
DefaultRevalidate == 3600
\* "{ next: { revalidate: 86400 } }" of the detail wrappers
DetailRevalidate == 86400

DEFAULT_LANGUAGE == "ko-KR"
DEFAULT_REGION == "KR"

\* values of process.env.TMDB_API_KEY: unset, empty, set
EnvValues == {"undefined", "", "key"}

\* what the upstream does with a request: fetch() rejects, or a response
\* arrives with an HTTP status and, when it is an error, TMDB's envelope
Upstream ==
  { [kind |-> "network", status |-> 0, status_code |-> 0,
     status_message |-> ""],
    [kind |-> "response", status |-> 200, status_code |-> 0,
     status_message |-> ""],
    [kind |-> "response", status |-> 404, status_code |-> 34,
     status_message |-> "The resource you requested could not be found."],
    [kind |-> "response", status |-> 401, status_code |-> 7,
     status_message |-> "Invalid API key: You must be granted a valid key."] }

\* response.ok
ResponseOk(status) == status >= 200 /\ status <= 299

\* variant of the error class that stores the HTTP status as statusCode
TMDBErrorWithHttpStatusAsCode(errorData, httpStatus) ==
  [name |-> "TMDBError",
   message |-> <<"TMDB API Error (", httpStatus, "): ",
                 errorData.status_message>>,
   statusCode |-> httpStatus,
   statusMessage |-> errorData.status_message]

\* new TMDBError(response, httpStatus)
TMDBError(errorData, httpStatus) ==
  [name |-> "TMDBError",
   message |-> <<"TMDB API Error (", httpStatus, "): ",
                 errorData.status_message>>,
   statusCode |-> errorData.status_code,
   statusMessage |-> errorData.status_message]

\* the error a rejected fetch() throws
FetchFailed == [name |-> "TypeError", message |-> <<"fetch failed">>]
NoThrow == [name |-> "none"]

EmptyParams == [k \in {} |-> ""]
Digits == <<"0", "1", "2", "3", "4", "5", "6", "7", "8", "9">>
RECURSIVE String(_)
\* String(page): the decimal numeral of a natural number
String(n) ==
  IF n < 10 THEN Digits[n + 1]
  ELSE String(n \div 10) \o Digits[(n % 10) + 1]
PageParam(pg) == [k \in {"page"} |-> String(pg)]
PageArgs == 1..MaxPageArg
Ids == {"550", "NaN"}
Queries == {"q", ""}
MediaTypes == {"movie", "tv", "person", "all"}
TimeWindows == {"day", "week"}
\* filter mappings the discover routes pass on
DiscoverParams ==
  { EmptyParams,
    [k \in {"with_genres"} |-> "28"],
    [k \in {"sort_by"} |-> "vote_average.desc"],
    [k \in {"language"} |-> "en-US"],
    [k \in {"api_key"} |-> "other"],
    [k \in {"page"} |-> "9"] }

\* { ...a, ...b }, and a run of searchParams.set over the entries of b
Merge(a, b) ==
  [k \in DOMAIN a \cup DOMAIN b |-> IF k \in DOMAIN b THEN b[k] ELSE a[k]]

NoOptions == [k \in {} |-> ""]
DetailOptions == [k \in {"revalidate"} |-> DetailRevalidate]
NoStoreOptions == [k \in {"cache"} |-> "no-store"]

\* variant of the credential test that only catches an unset variable
MissingOnlyWhenUnset(apiKey) == apiKey = "undefined"

\* "if (!apiKey)"
Missing(apiKey) == apiKey \in {"undefined", ""}

\* the URL's query: credential and defaults, then the caller's entries
UrlQuery(apiKey, params) ==
  Merge([api_key |-> apiKey, language |-> DEFAULT_LANGUAGE,
         region |-> DEFAULT_REGION], params)

\* "{ ...options, next: { revalidate: 3600, ...options.next } }"
\* (the key "revalidate" stands for next.revalidate; "cache" is present
\* only when the caller passes it)
FetchOptions(options) ==
  Merge([k \in {"revalidate"} |-> DefaultRevalidate], options)

\* fetchTMDB, called by wrapper w; up says what the upstream answers
fetchTMDB(w, endpoint, params, options, up) ==
  /\ call' = [wrapper |-> w, endpoint |-> endpoint, params |-> params]
  /\ IF Missing(env)
     THEN /\ outcome' = "null"
          /\ thrown' = NoThrow
          /\ UNCHANGED httpLog
     ELSE /\ Len(httpLog) < MaxCalls
          /\ httpLog' = Append(httpLog,
                               [endpoint |-> endpoint,
                                query |-> UrlQuery(env, params),
                                options |-> FetchOptions(options),
                                answer |-> up])
          /\ outcome' = CASE up.kind = "network" -> "NetworkError"
                          [] ~ResponseOk(up.status) -> "TMDBError"
                          [] OTHER -> "data"
          /\ thrown' = CASE up.kind = "network" -> FetchFailed
                         [] ~ResponseOk(up.status) ->
                              TMDBError(up, up.status)
                         [] OTHER -> NoThrow
  /\ UNCHANGED env

getPopularMovies(pg, up) ==
  fetchTMDB("getPopularMovies", <<"/movie/popular">>, PageParam(pg), NoOptions, up)

getNowPlayingMovies(pg, up) ==
  fetchTMDB("getNowPlayingMovies", <<"/movie/now_playing">>, PageParam(pg),
            NoOptions, up)

getTopRatedMovies(pg, up) ==
  fetchTMDB("getTopRatedMovies", <<"/movie/top_rated">>, PageParam(pg),
            NoOptions, up)

getUpcomingMovies(pg, up) ==
  fetchTMDB("getUpcomingMovies", <<"/movie/upcoming">>, PageParam(pg),
            NoOptions, up)

getMovieDetail(movieId, up) ==
  fetchTMDB("getMovieDetail", <<"/movie/", movieId>>,
            [append_to_response |->
               "credits,videos,images,recommendations,similar",
             include_image_language |-> "ko,null"],
            DetailOptions, up)

getPopularTVShows(pg, up) ==
  fetchTMDB("getPopularTVShows", <<"/tv/popular">>, PageParam(pg), NoOptions, up)

getOnTheAirTVShows(pg, up) ==
  fetchTMDB("getOnTheAirTVShows", <<"/tv/on_the_air">>, PageParam(pg),
            NoOptions, up)

getTopRatedTVShows(pg, up) ==
  fetchTMDB("getTopRatedTVShows", <<"/tv/top_rated">>, PageParam(pg),
            NoOptions, up)

getTVShowDetail(tvId, up) ==
  fetchTMDB("getTVShowDetail", <<"/tv/", tvId>>,
            [append_to_response |->
               "credits,videos,images,recommendations,similar",
             include_image_language |-> "ko,null"],
            DetailOptions, up)

getPersonDetail(personId, up) ==
  fetchTMDB("getPersonDetail", <<"/person/", personId>>,
            [append_to_response |-> "movie_credits,tv_credits,images"],
            NoOptions, up)

searchMulti(query, pg, up) ==
  fetchTMDB("searchMulti", <<"/search/multi">>,
            Merge([query |-> query, include_adult |-> "false"],
                  PageParam(pg)),
            NoStoreOptions, up)

searchMovies(query, pg, up) ==
  fetchTMDB("searchMovies", <<"/search/movie">>,
            Merge([query |-> query, include_adult |-> "false"],
                  PageParam(pg)),
            NoStoreOptions, up)

searchTVShows(query, pg, up) ==
  fetchTMDB("searchTVShows", <<"/search/tv">>,
            Merge([query |-> query], PageParam(pg)), NoStoreOptions, up)

getTrending(mediaType, timeWindow, pg, up) ==
  fetchTMDB("getTrending", <<"/trending/", mediaType, "/", timeWindow>>,
            PageParam(pg), NoOptions, up)

getMovieGenres(up) ==
  fetchTMDB("getMovieGenres", <<"/genre/movie/list">>, EmptyParams, NoOptions, up)

getTVGenres(up) ==
  fetchTMDB("getTVGenres", <<"/genre/tv/list">>, EmptyParams, NoOptions, up)

discoverMovies(params, pg, up) ==
  fetchTMDB("discoverMovies", <<"/discover/movie">>,
            Merge(Merge(PageParam(pg), [sort_by |-> "popularity.desc"]),
                  params),
            NoOptions, up)

discoverTVShows(params, pg, up) ==
  fetchTMDB("discoverTVShows", <<"/discover/tv">>,
            Merge(Merge(PageParam(pg), [sort_by |-> "popularity.desc"]),
                  params),
            NoOptions, up)

ClientNext ==
  \E up \in Upstream, pg \in PageArgs :
    \/ getPopularMovies(pg, up)
    \/ getNowPlayingMovies(pg, up)
    \/ getTopRatedMovies(pg, up)
    \/ getUpcomingMovies(pg, up)
    \/ \E id \in Ids : getMovieDetail(id, up)
    \/ getPopularTVShows(pg, up)
    \/ getOnTheAirTVShows(pg, up)
    \/ getTopRatedTVShows(pg, up)
    \/ \E id \in Ids : getTVShowDetail(id, up)
    \/ \E id \in Ids : getPersonDetail(id, up)
    \/ \E q \in Queries : searchMulti(q, pg, up)
    \/ \E q \in Queries : searchMovies(q, pg, up)
    \/ \E q \in Queries : searchTVShows(q, pg, up)
    \/ \E m \in MediaTypes, t \in TimeWindows : getTrending(m, t, pg, up)
    \/ getMovieGenres(up)
    \/ getTVGenres(up)
    \/ \E ps \in DiscoverParams : discoverMovies(ps, pg, up)
    \/ \E ps \in DiscoverParams : discoverTVShows(ps, pg, up)

\* the hook is not in use: its state stays as constructed
HookIdle == HookInit /\ view = "ContentGrid" /\ queryString = 1

ClientInit ==
  /\ HookIdle
  /\ ClientIdle
  /\ ServerIdle
  /\ StoreIdle
  /\ ModalIdle
  /\ env \in EnvValues

ClientSpec ==
  ClientInit /\ [][ClientNext /\ UNCHANGED <<hookVars, serverVars, storeVars, modalVars>>]_vars

Init ==
  /\ HookInit
  /\ ClientIdle
  /\ ServerIdle
  /\ StoreIdle
  /\ ModalIdle
  /\ env = "key"

Next == HookNext /\ UNCHANGED <<clientVars, serverVars, storeVars, modalVars>>

Spec == Init /\ [][Next]_vars

\* ------------------------------------------------------------------------
\* Asset-URL builders (lib/tmdb.ts)
\* ------------------------------------------------------------------------

TMDB_IMAGE_BASE_URL == "https://image.tmdb.org/t/p"

\* size variants of each asset kind (types/tmdb.ts)
PosterSize == {"w92", "w154", "w185", "w342", "w500", "w780", "original"}
BackdropSize == {"w300", "w780", "w1280", "original"}
ProfileSize == {"w45", "w185", "h632", "original"}
StillSize == {"w92", "w185", "w300", "original"}

\* an optional value: <<>> is null (or an omitted argument), <<s>> is s
Paths == {<<>>, <<"">>, <<"/abc123.jpg">>, <<"/still.png">>, <<"/p.webp">>}
Optional(S) == {<<>>} \cup {<<x>> : x \in S}
WithDefault(arg, default) == IF arg = <<>> THEN default ELSE arg[1]

\* variant of !path that only recognises null
FalsyOnlyNull(path) == path = <<>>

\* !path : null and the empty string are falsy
Falsy(path) == path = <<>> \/ path[1] = ""

ImageUrl(fn, path, sizeArg, default, placeholder) ==
  /\ asset' = [fn |-> fn, path |-> path, sizeArg |-> sizeArg,
               size |-> WithDefault(sizeArg, default),
               url |-> IF Falsy(path) THEN <<placeholder>>
                       ELSE <<TMDB_IMAGE_BASE_URL, "/",
                              WithDefault(sizeArg, default), path[1]>>]
  /\ UNCHANGED <<request, response, pageOut>>

getPosterUrl(path, size) ==
  ImageUrl("getPosterUrl", path, size, "w500", "/images/no-poster.svg")

getBackdropUrl(path, size) ==
  ImageUrl("getBackdropUrl", path, size, "w1280", "/images/no-backdrop.svg")

getProfileUrl(path, size) ==
  ImageUrl("getProfileUrl", path, size, "w185", "/images/no-profile.svg")

getStillUrl(path, size) ==
  ImageUrl("getStillUrl", path, size, "w300", "/images/no-still.svg")

AssetNext ==
  \E path \in Paths :
    \/ \E size \in Optional(PosterSize) : getPosterUrl(path, size)
    \/ \E size \in Optional(BackdropSize) : getBackdropUrl(path, size)
    \/ \E size \in Optional(ProfileSize) : getProfileUrl(path, size)
    \/ \E size \in Optional(StillSize) : getStillUrl(path, size)

AssetInit ==
  /\ HookIdle
  /\ ClientIdle
  /\ ServerIdle
  /\ StoreIdle
  /\ ModalIdle
  /\ env = "key"

AssetSpec ==
  AssetInit /\ [][AssetNext /\ UNCHANGED <<hookVars, clientVars, storeVars, modalVars>>]_vars

\* ------------------------------------------------------------------------
\* Proxy routes (app/api/.../route.ts)
\* ------------------------------------------------------------------------

\* searchParams.get(name): null when the parameter is absent
Get(query, name) == IF name \in DOMAIN query THEN <<query[name]>> ELSE <<>>

\* get(name) || default
OrElse(value, default) == IF Falsy(value) THEN default ELSE value[1]

\* Number(s) for the decimal numeral of a page number
NumberOf(s) == CHOOSE n \in PageArgs : String(n) = s

\* Number(searchParams.get("page") || "1")
PageOf(query) == NumberOf(OrElse(Get(query, "page"), "1"))

\* "if (value) params[key] = value"
Pick(query, name, key) ==
  IF Falsy(Get(query, name)) THEN EmptyParams
  ELSE [k \in {key} |-> query[name]]

\* variant of the rating filter that tests for presence only
VoteFilterWhenPresent(query) ==
  IF "vote_average_gte" \notin DOMAIN query THEN EmptyParams
  ELSE [k \in {"vote_average.gte", "vote_count.gte"} |->
          IF k = "vote_average.gte" THEN query["vote_average_gte"] ELSE "50"]

\* "if (voteAvgGte) { vote_average.gte = voteAvgGte; vote_count.gte = 50 }"
VoteFilter(query) ==
  IF Falsy(Get(query, "vote_average_gte")) THEN EmptyParams
  ELSE [k \in {"vote_average.gte", "vote_count.gte"} |->
          IF k = "vote_average.gte" THEN query["vote_average_gte"] ELSE "50"]

\* the params object of the two discover routes
DiscoverFilters(query, yearKey) ==
  Merge(Merge(Merge(Pick(query, "sort_by", "sort_by"),
                    Pick(query, "with_genres", "with_genres")),
              Pick(query, "year", yearKey)),
        VoteFilter(query))

\* NextResponse.json(body, { status })
Json(status, body) == [status |-> status, body |-> body]

\* the message of each route's catch block (the Korean literal, in English)
ErrorText(route) ==
  CASE route = "/api/discover/movies" ->
         "An error occurred while loading the movie list."
    [] route = "/api/discover/tv" ->
         "An error occurred while loading the TV series list."
    [] route = "/api/trending" ->
         "An error occurred while loading trending content."
    [] route = "/api/search" -> "An error occurred while searching."
    [] route = "/api/content/[id]" ->
         "Failed to fetch the content information."

\* variant of the catch block that forwards the upstream status message
RouteErrorForwardsUpstream(route, err) ==
  Json(500, [error |-> IF err.name = "TMDBError" THEN err.statusMessage
                       ELSE ErrorText(route)])

\* catch (error) { return NextResponse.json({ error: ... }, { status: 500 }) }
RouteError(route, err) == Json(500, [error |-> ErrorText(route)])

\* try { return NextResponse.json(await wrapper(...)) } catch { ... }
Settle(route, err, result) ==
  IF err.name # "none" THEN RouteError(route, err)
  ELSE Json(200, [json |-> result])

\* a handler that returns before any call to the fetch client
NoUpstreamCall ==
  /\ call' = [wrapper |-> "none", endpoint |-> <<>>, params |-> <<>>]
  /\ outcome' = "none"
  /\ thrown' = NoThrow
  /\ UNCHANGED <<env, httpLog>>

\* the query strings of a request: every choice of present parameters and
\* of a value for each
QueriesOver(vals) ==
  UNION { { q \in [D -> UNION {vals[k] : k \in D}] :
              \A k \in D : q[k] \in vals[k] } : D \in SUBSET DOMAIN vals }

DiscoverQueries ==
  QueriesOver(("vote_average_gte" :> {"", "7.5"}) @@
              ("vote_count.gte" :> {"10"}))

TrendingQueries ==
  QueriesOver(("media_type" :> {"", "person", "music"}) @@
              ("time_window" :> {"", "month"}))

PageQueries == QueriesOver("page" :> {"2"})

\* texts as sequences of characters
Whitespace == {" ", "\t", "\n"}
QueryTexts ==
  {<<>>, <<"\t", " ">>, <<" ", "a", " ">>}
IdTexts ==
  {<<"5", "5", "0">>, <<"1", "2", "a", "b", "c">>, <<"a", "b", "c">>}

RECURSIVE Join(_)
\* the string made of the characters cs
Join(cs) == IF cs = <<>> THEN "" ELSE Head(cs) \o Join(Tail(cs))

RECURSIVE TrimStart(_)
TrimStart(cs) ==
  IF cs # <<>> /\ Head(cs) \in Whitespace THEN TrimStart(Tail(cs)) ELSE cs

RECURSIVE TrimEnd(_)
TrimEnd(cs) ==
  IF cs # <<>> /\ cs[Len(cs)] \in Whitespace
  THEN TrimEnd(SubSeq(cs, 1, Len(cs) - 1)) ELSE cs

\* variant of String.prototype.trim that strips nothing
TrimNothing(cs) == cs

\* String.prototype.trim
Trim(cs) == TrimEnd(TrimStart(cs))

RECURSIVE DigitPrefix(_)
\* the longest prefix of decimal digits
DigitPrefix(cs) ==
  IF cs # <<>> /\ \E i \in 1..10 : Digits[i] = Head(cs)
  THEN <<Head(cs)>> \o DigitPrefix(Tail(cs)) ELSE <<>>

RECURSIVE DecimalValue(_)
DecimalValue(ds) ==
  IF ds = <<>> THEN 0
  ELSE 10 * DecimalValue(SubSeq(ds, 1, Len(ds) - 1))
       + ((CHOOSE i \in 1..10 : Digits[i] = ds[Len(ds)]) - 1)

\* parseInt(id): the value of the leading digits, <<>> for NaN
ParseInt(cs) ==
  IF DigitPrefix(TrimStart(cs)) = <<>> THEN <<>>
  ELSE <<DecimalValue(DigitPrefix(TrimStart(cs)))>>

\* GET /api/discover/movies
DiscoverMoviesRoute(query, up) ==
  /\ request' = [route |-> "/api/discover/movies", query |-> query]
  /\ discoverMovies(DiscoverFilters(query, "primary_release_year"),
                    PageOf(query), up)
  /\ response' = Settle("/api/discover/movies", thrown', outcome')
  /\ UNCHANGED <<asset, pageOut>>

\* GET /api/discover/tv
DiscoverTVRoute(query, up) ==
  /\ request' = [route |-> "/api/discover/tv", query |-> query]
  /\ discoverTVShows(Merge(DiscoverFilters(query, "first_air_date_year"),
                           Pick(query, "with_origin_country",
                                "with_origin_country")),
                     PageOf(query), up)
  /\ response' = Settle("/api/discover/tv", thrown', outcome')
  /\ UNCHANGED <<asset, pageOut>>

validMediaTypes == {"movie", "tv", "person", "all"}

\* variant of the time-window list that also admits "month"
validTimeWindowsWithMonth == {"day", "week", "month"}

validTimeWindows == {"day", "week"}

\* GET /api/trending
TrendingRoute(query, up) ==
  LET mediaType == OrElse(Get(query, "media_type"), "all")
      timeWindow == OrElse(Get(query, "time_window"), "day")
  IN /\ request' = [route |-> "/api/trending", query |-> query]
     /\ IF mediaType \notin validMediaTypes
        THEN /\ response' = Json(400, [error |-> "Invalid media_type."])
             /\ NoUpstreamCall
        ELSE IF timeWindow \notin validTimeWindows
        THEN /\ response' = Json(400, [error |-> "Invalid time_window."])
             /\ NoUpstreamCall
        ELSE /\ getTrending(mediaType, timeWindow, PageOf(query), up)
             /\ response' = Settle("/api/trending", thrown', outcome')
     /\ UNCHANGED <<asset, pageOut>>

\* GET /api/search; text is the query parameter's characters, <<>> if absent
SearchRoute(text, pageQuery, up) ==
  /\ request' = [route |-> "/api/search", text |-> text,
                 query |-> IF text = <<>> THEN pageQuery
                           ELSE Merge(pageQuery,
                                      [k \in {"query"} |-> Join(text[1])])]
  /\ IF text = <<>> \/ Join(text[1]) = "" \/ Trim(text[1]) = <<>>
     THEN /\ response' = Json(200, [results |-> <<>>, total_results |-> 0])
          /\ NoUpstreamCall
     ELSE /\ searchMulti(Join(text[1]), PageOf(pageQuery), up)
          /\ response' = Settle("/api/search", thrown', outcome')
  /\ UNCHANGED <<asset, pageOut>>

\* GET /api/content/[id]
ContentRoute(id, query, up) ==
  LET contentId == ParseInt(id)
      type == OrElse(Get(query, "type"), "movie")
      route == "/api/content/[id]"
  IN /\ request' = [route |-> route, id |-> id, query |-> query]
     /\ IF contentId = <<>>
        THEN /\ response' = Json(400, [error |-> "Invalid content ID."])
             /\ NoUpstreamCall
        ELSE /\ IF type = "tv" THEN getTVShowDetail(String(contentId[1]), up)
                ELSE getMovieDetail(String(contentId[1]), up)
             \* show.id / movie.id of the null sentinel throws inside the try
             /\ response' = IF thrown'.name # "none"
                            THEN RouteError(route, thrown')
                            ELSE IF outcome' = "null"
                            THEN RouteError(route, FetchFailed)
                            ELSE Json(200, [json |-> "summary"])
     /\ UNCHANGED <<asset, pageOut>>

RouteNext ==
  \E up \in Upstream :
    \/ \E query \in DiscoverQueries : DiscoverMoviesRoute(query, up)
    \/ \E query \in DiscoverQueries : DiscoverTVRoute(query, up)
    \/ \E query \in TrendingQueries : TrendingRoute(query, up)
    \/ \E text \in Optional(QueryTexts), query \in PageQueries :
         SearchRoute(text, query, up)
    \/ \E id \in IdTexts, query \in QueriesOver("type" :> {"tv"}) :
         ContentRoute(id, query, up)

RouteInit ==
  /\ HookIdle
  /\ ClientIdle
  /\ ServerIdle
  /\ StoreIdle
  /\ ModalIdle
  /\ env \in EnvValues

RouteSpec ==
  RouteInit /\ [][RouteNext /\ UNCHANGED <<hookVars, storeVars, modalVars>>]_vars

\* ------------------------------------------------------------------------
\* Server pages (movie and TV detail pages, home page sections)
\* ------------------------------------------------------------------------

\* the rest of a detail page after the fetch: notFound() in the catch block,
\* a property read of the result (movie.credits, show.created_by) otherwise
DetailResult(err, result) ==
  IF err.name # "none" THEN "notFound"
  ELSE IF result = "null" THEN "TypeError"
  ELSE "rendered"

\* app/(main)/movies/[id]/page.tsx
MovieDetailPage(id, up) ==
  /\ IF ParseInt(id) = <<>>
     THEN /\ pageOut' = [page |-> "MovieDetailPage", id |-> id,
                         result |-> "notFound"]
          /\ NoUpstreamCall
     ELSE /\ getMovieDetail(String(ParseInt(id)[1]), up)
          /\ pageOut' = [page |-> "MovieDetailPage", id |-> id,
                         result |-> DetailResult(thrown', outcome')]
  /\ UNCHANGED <<asset, request, response>>

\* app/(main)/tv/[id]/page.tsx
TVDetailPage(id, up) ==
  /\ IF ParseInt(id) = <<>>
     THEN /\ pageOut' = [page |-> "TVDetailPage", id |-> id,
                         result |-> "notFound"]
          /\ NoUpstreamCall
     ELSE /\ getTVShowDetail(String(ParseInt(id)[1]), up)
          /\ pageOut' = [page |-> "TVDetailPage", id |-> id,
                         result |-> DetailResult(thrown', outcome')]
  /\ UNCHANGED <<asset, request, response>>

\* the body shared by the home page sections: absent (null) on a thrown
\* error, on a null result and on an empty list, rendered otherwise
SectionResult(section, err, result, empty) ==
  /\ pageOut' = [page |-> section, id |-> <<>>,
                 result |-> IF err.name # "none" THEN "absent"
                            ELSE IF result = "null" THEN "absent"
                            ELSE IF empty THEN "absent"
                            ELSE "rendered"]
  /\ UNCHANGED <<asset, request, response>>

HeroBannerSection(empty, up) ==
  /\ getTrending("all", "day", 1, up)
  /\ SectionResult("HeroBannerSection", thrown', outcome', empty)

TrendingWeekSection(empty, up) ==
  /\ getTrending("all", "week", 1, up)
  /\ SectionResult("TrendingWeekSection", thrown', outcome', empty)

PopularMoviesSection(empty, up) ==
  /\ getPopularMovies(1, up)
  /\ SectionResult("PopularMoviesSection", thrown', outcome', empty)

PopularDramaSection(empty, up) ==
  /\ getPopularTVShows(1, up)
  /\ SectionResult("PopularDramaSection", thrown', outcome', empty)

VarietyShowSection(empty, up) ==
  /\ discoverTVShows([with_genres |-> "10764,10767",
                      with_origin_country |-> "KR"], 1, up)
  /\ SectionResult("VarietyShowSection", thrown', outcome', empty)

TopRatedSection(empty, up) ==
  /\ getTopRatedMovies(1, up)
  /\ SectionResult("TopRatedSection", thrown', outcome', empty)

PageNext ==
  \E up \in Upstream :
    \/ \E id \in IdTexts : MovieDetailPage(id, up)
    \/ \E id \in IdTexts : TVDetailPage(id, up)
    \/ \E empty \in BOOLEAN : HeroBannerSection(empty, up)
    \/ \E empty \in BOOLEAN : TrendingWeekSection(empty, up)
    \/ \E empty \in BOOLEAN : PopularMoviesSection(empty, up)
    \/ \E empty \in BOOLEAN : PopularDramaSection(empty, up)
    \/ \E empty \in BOOLEAN : VarietyShowSection(empty, up)
    \/ \E empty \in BOOLEAN : TopRatedSection(empty, up)

PageInit ==
  /\ HookIdle
  /\ ClientIdle
  /\ ServerIdle
  /\ StoreIdle
  /\ ModalIdle
  /\ env \in EnvValues

PageSpec ==
  PageInit /\ [][PageNext /\ UNCHANGED <<hookVars, storeVars, modalVars>>]_vars

\* ------------------------------------------------------------------------
\* Properties
\* ------------------------------------------------------------------------
RECURSIVE PagesConcat(_, _)
\* the results of the loads in l, one after the other, under fingerprint fp
PagesConcat(fp, l) ==
  IF l = <<>> THEN <<>>
  ELSE PagesConcat(fp, SubSeq(l, 1, Len(l) - 1))
         \o Results(fp, Len(l), l[Len(l)].n)

\* C1: once no fetch is outstanding, data holds only items returned for the
\* fingerprint that is current at that moment.
EpochAtomicity ==
  (mounted /\ inflight = <<>>) =>
    \A i \in 1..Len(data) : data[i].fp = queryString

\* C2: applying the response of a load-more fetch that was issued under a
\* fingerprint that is no longer current changes none of data, page,
\* hasMore, totalResults.
StaleResponseDiscarded ==
  [][(lastEvent'.kind = "ok" /\ ~lastEvent'.isReset
        /\ lastEvent'.fp # queryString)
       => UNCHANGED <<data, page, hasMore, totalResults>>]_vars

\* C3: right after a change of the filter fingerprint, in any state, data is
\* empty, page is 1, hasMore and isInitialLoading are true and a page-1
\* request for the new fingerprint is outstanding.
EpochRotationStartsEpoch ==
  lastEvent.kind = "filter" =>
    /\ data = <<>> /\ page = 1 /\ hasMore /\ isInitialLoading
    /\ \E i \in 1..Len(inflight) :
         inflight[i] = Request(1, TRUE, queryString, epoch)

\* C4: at most one request of the hook instance is outstanding.
InFlightExclusivity == Len(inflight) <= 1

\* C4 witness: a reset() found a request outstanding and issued none.
InFlightExclusivityWitness ==
  /\ lastEvent.kind = "reset" /\ ~lastEvent.issued
  /\ Len(inflight) = 1 /\ isFetchingRef

\* C5: within one epoch with only successful responses, no page number is
\* requested twice.
NoDuplicatePageRequests ==
  ~epochFailed =>
    \A i, j \in 1..Len(issued) :
      (i # j /\ issued[i].epoch = epoch /\ issued[j].epoch = epoch)
        => issued[i].page # issued[j].page

\* C6: within one epoch (every load applied since the rotation was requested
\* in this epoch), after N successful page loads the loads are those of
\* pages 1..N in order and data is the in-order concatenation of their
\* results.
AppendOnlyAccumulation ==
  (mounted /\ \A i \in 1..Len(loaded) : loaded[i].epoch = epoch) =>
    /\ \A i \in 1..Len(loaded) : loaded[i].page = i
    /\ data = PagesConcat(queryString, loaded)

\* C7: after a successful response for page p with total_pages T is applied,
\* hasMore = (p < T).
HasMoreCorrect ==
  lastEvent.kind = "ok" => (hasMore <=> lastEvent.page < lastEvent.total_pages)

\* C7 witness: the last page of a list of several pages has been applied.
HasMoreCorrectWitness ==
  /\ lastEvent.kind = "ok" /\ lastEvent.page = 2 /\ lastEvent.total_pages = 2
  /\ ~hasMore /\ Len(data) > 1

\* C8: a failed fetch sets error to a message and leaves data, page, hasMore
\* and totalResults as they were.
FailureLeavesStateIntact ==
  [][lastEvent'.kind = "fail"
       => /\ error' \in {NotOkMessage, NetworkMessage}
          /\ UNCHANGED <<data, page, hasMore, totalResults>>]_vars

\* C8 witness: a load-more fetch failed with items accumulated and more to
\* come.
FailureLeavesStateIntactWitness ==
  /\ lastEvent.kind = "fail" /\ ~lastEvent.isReset
  /\ Len(data) > 0 /\ hasMore /\ totalResults > 0 /\ error # NoError

\* C9: right after reset(), in any state, a page-1 request under the current
\* fingerprint is outstanding (the request whose results data then equals).
ResetRefetchesPageOne ==
  lastEvent.kind = "reset" =>
    \E i \in 1..Len(inflight) :
      inflight[i] = Request(1, TRUE, queryString, epoch)

\* C10: without a credential, every wrapper returns null, throws nothing and
\* issues no HTTP request.
SoftDegrade ==
  (env \in {"undefined", ""} /\ call.wrapper # "none") =>
    outcome = "null" /\ httpLog = <<>>

\* C10 witness: a wrapper with caller parameters was called with the
\* credential set to the empty string.
SoftDegradeWitness ==
  /\ env = "" /\ call.wrapper = "discoverMovies" /\ outcome = "null"
  /\ "with_genres" \in DOMAIN call.params

\* the wrappers by request class
DetailWrappers == {"getMovieDetail", "getTVShowDetail"}
SearchWrappers == {"searchMulti", "searchMovies", "searchTVShows"}

\* the upstream request issued by the last call (when the key is set)
LastHttp == httpLog[Len(httpLog)]
Called == call.wrapper # "none" /\ ~Missing(env)

\* C11: whatever the params mapping, the api_key of the issued URL is the
\* configured credential, while caller-supplied language and region replace
\* the injected defaults.
CredentialNotOverridable ==
  Called =>
    /\ LastHttp.query["api_key"] = env
    /\ \A k \in {"language", "region"} :
         k \in DOMAIN call.params => LastHttp.query[k] = call.params[k]

CachePolicyPerClass ==
  Called =>
    LET o == LastHttp.options
    IN CASE call.wrapper \in DetailWrappers ->
              "cache" \notin DOMAIN o /\ o["revalidate"] = 86400
         [] call.wrapper \in SearchWrappers ->
              /\ "cache" \in DOMAIN o /\ o["cache"] = "no-store"
              /\ "revalidate" \notin DOMAIN o
         [] OTHER ->
              "cache" \notin DOMAIN o /\ o["revalidate"] = 3600

\* the size variants and the placeholder of each builder
SizesOf(fn) ==
  CASE fn = "getPosterUrl" -> PosterSize
    [] fn = "getBackdropUrl" -> BackdropSize
    [] fn = "getProfileUrl" -> ProfileSize
    [] fn = "getStillUrl" -> StillSize

PlaceholderOf(fn) ==
  CASE fn = "getPosterUrl" -> "/images/no-poster.svg"
    [] fn = "getBackdropUrl" -> "/images/no-backdrop.svg"
    [] fn = "getProfileUrl" -> "/images/no-profile.svg"
    [] fn = "getStillUrl" -> "/images/no-still.svg"

\* C13: each builder returns the fixed placeholder of its asset kind for a
\* null or empty path and https://image.tmdb.org/t/p/{size}{path} otherwise,
\* with size one of the kind's variants; the result is never null.
AssetUrlTotal ==
  asset.fn # "none" =>
    /\ asset.url # <<>>
    /\ IF asset.path = <<>> \/ asset.path = <<"">>
       THEN asset.url = <<PlaceholderOf(asset.fn)>>
       ELSE /\ asset.size \in SizesOf(asset.fn)
            /\ asset.url = <<"https://image.tmdb.org/t/p", "/", asset.size,
                             asset.path[1]>>

\* C13 witness: a builder was called with the empty path and an explicit
\* size and returned its placeholder.
AssetUrlTotalWitness ==
  /\ asset.fn = "getStillUrl" /\ asset.path = <<"">>
  /\ asset.sizeArg = <<"w185">> /\ asset.url = <<"/images/no-still.svg">>

DiscoverRoutes == {"/api/discover/movies", "/api/discover/tv"}

\* C15: on both discover routes the upstream parameters contain
\* vote_count.gte = 50 exactly when the request has a non-empty
\* vote_average_gte, and then vote_average.gte is the supplied value.
VoteCountFloor ==
  request.route \in DiscoverRoutes =>
    LET rated == /\ "vote_average_gte" \in DOMAIN request.query
                 /\ request.query["vote_average_gte"] # ""
        sent == IF Called THEN LastHttp.query ELSE call.params
    IN /\ call.wrapper \in {"discoverMovies", "discoverTVShows"}
       /\ rated <=> "vote_count.gte" \in DOMAIN sent
       /\ rated => /\ sent["vote_count.gte"] = "50"
                   /\ sent["vote_average.gte"] =
                        request.query["vote_average_gte"]

\* C15 witness: a rated request that also supplied its own vote_count.gte
\* reached the upstream with the floor of 50.
VoteCountFloorWitness ==
  /\ request.route = "/api/discover/tv" /\ Called
  /\ DOMAIN request.query = {"vote_average_gte", "vote_count.gte"}
  /\ request.query["vote_average_gte"] = "7.5"
  /\ LastHttp.query["vote_count.gte"] = "50"

\* C16 (as stated): a media_type outside {movie, tv, person, all} or a
\* time_window outside {day, week} gives HTTP 400 with an error message and
\* no upstream call.
TrendingRejectsInvalid ==
  (/\ request.route = "/api/trending"
   /\ \/ /\ "media_type" \in DOMAIN request.query
         /\ request.query["media_type"] \notin {"movie", "tv", "person", "all"}
      \/ /\ "time_window" \in DOMAIN request.query
         /\ request.query["time_window"] \notin {"day", "week"})
  => /\ response.status = 400
     /\ DOMAIN response.body = {"error"}
     /\ call.wrapper = "none"

\* C16 (amended): a non-empty media_type outside {movie, tv, person, all} or
\* a non-empty time_window outside {day, week} gives HTTP 400 with an error
\* message and no upstream call; an empty value counts as absent.
TrendingRejectsNonEmptyInvalid ==
  (/\ request.route = "/api/trending"
   /\ \/ /\ "media_type" \in DOMAIN request.query
         /\ request.query["media_type"]
              \notin {"", "movie", "tv", "person", "all"}
      \/ /\ "time_window" \in DOMAIN request.query
         /\ request.query["time_window"] \notin {"", "day", "week"})
  => /\ response.status = 400
     /\ DOMAIN response.body = {"error"}
     /\ call.wrapper = "none"

\* C16 witness: a valid media_type with time_window=month was rejected after
\* an earlier request had reached the upstream.
TrendingRejectsNonEmptyInvalidWitness ==
  /\ request.route = "/api/trending"
  /\ "media_type" \in DOMAIN request.query
  /\ request.query["media_type"] = "person"
  /\ "time_window" \in DOMAIN request.query
  /\ request.query["time_window"] = "month"
  /\ response.status = 400 /\ httpLog # <<>>

\* C17: a search request whose query is missing, empty or made of whitespace
\* only gets HTTP 200 with {results: [], total_results: 0} and no upstream
\* call.
SearchEmptyQuery ==
  (/\ request.route = "/api/search"
   /\ \/ request.text = <<>>
      \/ \A i \in 1..Len(request.text[1]) :
           request.text[1][i] \in {" ", "\t", "\n"})
  => /\ response.status = 200
     /\ response.body = [results |-> <<>>, total_results |-> 0]
     /\ call.wrapper = "none"

\* C17 witness: a whitespace-only query was answered with the empty result.
SearchEmptyQueryWitness ==
  /\ request.route = "/api/search"
  /\ request.text = <<(<<"\t", " ">>)>>
  /\ response.status = 200 /\ call.wrapper = "none"

\* C18: when the upstream call of a proxy route fails, the response is HTTP
\* 500 with a body {error: text}, text being fixed per route: not the
\* upstream message, not the credential.
ProxyFailureEnvelope ==
  (request.route # "none" /\ thrown.name # "none") =>
    /\ response.status = 500
    /\ DOMAIN response.body = {"error"}
    /\ response.body.error = ErrorText(request.route)
    /\ response.body.error # env
    /\ thrown.name = "TMDBError" =>
         response.body.error # thrown.statusMessage

\* C18 witness: the content route answered 500 after the upstream rejected
\* the credential with HTTP 401.
ProxyFailureEnvelopeWitness ==
  /\ request.route = "/api/content/[id]" /\ env = "key"
  /\ thrown.name = "TMDBError" /\ thrown.statusCode = 7
  /\ response.status = 500

DetailPages == {"MovieDetailPage", "TVDetailPage"}

\* a text made of decimal digits only
Numeric(cs) ==
  cs # <<>> /\ \A i \in 1..Len(cs) : \E d \in 1..10 : Digits[d] = cs[i]

\* C19: when the detail wrapper throws or the id is not numeric, the movie
\* and TV detail pages end in the not-found fallback (stated for a
\* configured credential).
DetailNotFoundFallback ==
  (/\ pageOut.page \in DetailPages
   /\ ~Missing(env)
   /\ thrown.name # "none" \/ ~Numeric(pageOut.id))
  => pageOut.result = "notFound"

\* C20: without a credential every server page that uses the fetch client
\* ends rendered, absent or in the not-found fallback, never in an
\* exception raised on the null sentinel.
DegradedRendering ==
  (pageOut.page # "none" /\ Missing(env)) =>
    pageOut.result \in {"rendered", "absent", "notFound"}

\* C21: every failure of the HTTP call in fetchData (rejected fetch, non-OK
\* status, body that is JSON null) is captured: fetchData ends with error set
\* to a message and nothing of it is thrown into the render.
FetchFailureCaptured ==
  /\ lastEvent.kind \in {"fail", "null"} => error # NoError
  /\ renderTree # "crashed"

\* the pending state has been rendered and the effects of that render ran
Rendered ==
  /\ mounted
  /\ renderTree = "ok"
  /\ Deps(queryString, hasMore, page) = effectDeps
  /\ SentinelRendered(view, isInitialLoading, error, data) = sentinel

\* C22: in a ContentGrid whose page 1 (of several pages) is rendered, the
\* observer is attached to the mounted sentinel with the current page, so
\* that the sentinel becoming visible issues the request for page 2.
SentinelLiveness ==
  (/\ view = "ContentGrid"
   /\ Rendered
   /\ inflight = <<>>
   /\ page = 1 /\ hasMore /\ Len(data) > 0 /\ error = NoError)
  => /\ sentinel
     /\ observer.attached
     /\ observer.hasMore
     /\ observer.page = 1

\* C23: while hasMore is false (a response with page >= total_pages was
\* applied and neither a filter change nor reset() followed), no sentinel
\* callback issues a request.
NoFetchAfterExhaustion ==
  [][(~hasMore /\ lastEvent'.kind = "sentinel") => ~lastEvent'.issued]_vars

\* C24: when the page-1 response of an epoch is empty (no results,
\* total_pages 0 or 1, total_results 0), the engine ends with data = [],
\* hasMore = false, totalResults = 0, error = null and isInitialLoading =
\* false.
EmptyFirstPage ==
  (/\ lastEvent.kind = "ok"
   /\ lastEvent.page = 1
   /\ lastEvent.n = 0
   /\ lastEvent.total_pages \in {0, 1}
   /\ lastEvent.total_results = 0)
  => /\ data = <<>>
     /\ ~hasMore
     /\ totalResults = 0
     /\ error = NoError
     /\ ~isInitialLoading

\* C24 witness: after a filter change, the first page of the new
\* fingerprint came back empty with total_pages 0.
EmptyFirstPageWitness ==
  /\ lastEvent.kind = "ok" /\ lastEvent.page = 1 /\ lastEvent.n = 0
  /\ lastEvent.total_pages = 0 /\ lastEvent.total_results = 0
  /\ lastEvent.fp = queryString /\ epoch = 2
  /\ data = <<>> /\ ~hasMore

\* C25: after a load-more request for page k failed, the next sentinel
\* trigger requests page k again and clears error; and in ContentGrid, once
\* the failure is rendered, the sentinel is still observed, so that such a
\* trigger can happen.
RetryAfterFailure ==
  /\ [][(/\ lastEvent.kind = "fail" /\ ~lastEvent.isReset
         /\ lastEvent'.kind = "sentinel" /\ lastEvent'.issued)
        => (lastEvent'.page = lastEvent.page /\ error' = NoError)]_vars
  /\ []((/\ view = "ContentGrid"
         /\ Rendered
         /\ inflight = <<>>
         /\ error # NoError /\ hasMore /\ Len(data) > 0)
        => (sentinel /\ observer.attached /\ observer.hasMore))

\* C29: isLoading is true exactly when the in-flight guard is set, which is
\* exactly when a request of the instance is outstanding; a request that
\* completes, by success or by failure, releases the guard and clears
\* isLoading.
LoadingTracksGuard ==
  /\ isLoading <=> isFetchingRef
  /\ isFetchingRef <=> inflight # <<>>
  /\ lastEvent.kind \in {"ok", "fail", "null"} =>
       ~isLoading /\ ~isFetchingRef

\* C29 witness: a load-more request failed and released the guard, and the
\* next sentinel callback set it again.
LoadingTracksGuardWitness ==
  /\ lastEvent.kind = "sentinel" /\ lastEvent.issued
  /\ epochFailed /\ error = NoError
  /\ isLoading /\ isFetchingRef /\ Len(inflight) = 1


\* ------------------------------------------------------------------------
\* Store routes: POST /api/watchlist and POST /api/reviews/[id]/like
\* ------------------------------------------------------------------------
\* route-handler runs explored in one behaviour
NumRuns == 2

Runs == 1..NumRuns
\* session.user.id of the signed-in users
UserIds == {"u1", "u2"}
\* getServerSession(authOptions): null, or a session carrying a user id
Sessions == Optional(UserIds)
\* body.contentId and body.contentType as the client may send them
ContentIdArgs == Optional({0, 1})
ContentTypeArgs == Optional({"movie", "person"})
\* params.id of the review routes: a stored review and an unknown id
ReviewIds == {"r1", "r9"}

\* a run of a handler that has not been called yet
IdleRun ==
  [pc |-> "idle", route |-> "none", userId |-> <<>>, key |-> <<>>,
   existing |-> <<>>, response |-> [status |-> 0], before |-> FALSE,
   after |-> FALSE, body |-> <<>>, wrote |-> FALSE]

\* !contentId for a JSON number: undefined and 0 are falsy
FalsyNumber(value) == value = <<>> \/ value[1] = 0

\* a row whose compound unique key is "key" is stored in the table
Member(table, key) == \E row \in table : row.key = key

\* prisma.<table>.findUnique({ where: { <compound key> } }): the row or null
FindUnique(table, key) ==
  IF Member(table, key) THEN <<CHOOSE row \in table : row.key = key>>
  ELSE <<>>

\* prisma.<table>.create resolves unless the compound key is already stored
CreateResolves(table, key) == ~Member(table, key)

\* prisma.<table>.delete({ where: { id } }) resolves if the row still exists
DeleteResolves(table, id) == \E row \in table : row.id = id

Create(table, id, key) == table \cup {[id |-> id, key |-> key]}
Delete(table, id) == {row \in table : row.id # id}

\* the handler returns this response
Return(run, route, session, res) ==
  [run EXCEPT !.pc = "done", !.route = route, !.userId = session,
              !.response = res]

\* catch (error) { return NextResponse.json({ error }, { status: 500 }) }
CatchBlock(route) == Json(500, [error |-> <<"failed", route>>])

\* variant of the toggle's response that reports what findUnique had found
WatchlistToggledEchoesFound(existing) ==
  Json(200, [isInWatchlist |-> existing # <<>>])

\* { isInWatchlist: false } after delete, { isInWatchlist: true } after create
WatchlistToggled(existing) ==
  Json(200, [isInWatchlist |-> existing = <<>>])

\* POST /api/watchlist up to its first store operation
WatchlistPost(r, session, contentId, contentType) ==
  /\ reqs[r].pc = "idle"
  /\ reqs' = [reqs EXCEPT ![r] =
       IF session = <<>>
         THEN Return(@, "/api/watchlist", session,
                     Json(401, [error |-> "login required"]))
       ELSE IF FalsyNumber(contentId) \/ Falsy(contentType)
         THEN Return(@, "/api/watchlist", session,
                     Json(400, [error |-> "contentId and contentType required"]))
       ELSE IF contentType[1] \notin {"movie", "tv"}
         THEN Return(@, "/api/watchlist", session,
                     Json(400, [error |-> "contentType must be movie or tv"]))
       ELSE LET key == <<session[1], contentId[1], contentType[1]>> IN
            [@ EXCEPT !.pc = "find", !.route = "/api/watchlist",
                      !.userId = session, !.key = key,
                      !.before = Member(watchlist, key)]]
  /\ UNCHANGED <<watchlist, reviewLikes, reviews>>

\* const existing = await prisma.watchlist.findUnique(...)
WatchlistFind(r) ==
  /\ reqs[r].pc = "find"
  /\ reqs[r].route = "/api/watchlist"
  /\ reqs' = [reqs EXCEPT ![r].pc = "write",
                          ![r].existing = FindUnique(watchlist, reqs[r].key)]
  /\ UNCHANGED <<watchlist, reviewLikes, reviews>>

\* if (existing) delete by id, else create; a rejected operation is caught
WatchlistWrite(r) ==
  /\ reqs[r].pc = "write"
  /\ reqs[r].route = "/api/watchlist"
  /\ LET run == reqs[r]
         resolves == IF run.existing # <<>>
                     THEN DeleteResolves(watchlist, run.existing[1].id)
                     ELSE CreateResolves(watchlist, run.key)
     IN /\ watchlist' =
             IF ~resolves THEN watchlist
             ELSE IF run.existing # <<>>
               THEN Delete(watchlist, run.existing[1].id)
             ELSE Create(watchlist, r, run.key)
        /\ reqs' = [reqs EXCEPT ![r] =
             [@ EXCEPT !.pc = "done",
                       !.after = Member(watchlist', run.key),
                       !.response = IF resolves
                                    THEN WatchlistToggled(run.existing)
                                    ELSE CatchBlock(run.route)]]
  /\ UNCHANGED <<reviewLikes, reviews>>


\* prisma.review.findUnique({ where: { id } }): the review or null
FindReview(id) ==
  IF \E rv \in reviews : rv.id = id
  THEN <<CHOOSE rv \in reviews : rv.id = id>>
  ELSE <<>>

\* POST /api/reviews/[id]/like up to its first store operation
LikePost(r, session, reviewId) ==
  /\ reqs[r].pc = "idle"
  /\ reqs' = [reqs EXCEPT ![r] =
       IF session = <<>>
         THEN Return(@, "/api/reviews/[id]/like", session,
                     Json(401, [error |-> "login required"]))
       ELSE LET key == <<session[1], reviewId>> IN
            [@ EXCEPT !.pc = "review", !.route = "/api/reviews/[id]/like",
                      !.userId = session, !.key = key,
                      !.before = Member(reviewLikes, key)]]
  /\ UNCHANGED <<watchlist, reviewLikes, reviews>>

\* const review = await prisma.review.findUnique(...); 404 when missing
LikeFindReview(r) ==
  /\ reqs[r].pc = "review"
  /\ reqs[r].route = "/api/reviews/[id]/like"
  /\ reqs' = [reqs EXCEPT ![r] =
       IF FindReview(@.key[2]) = <<>>
       THEN [@ EXCEPT !.pc = "done",
                      !.response = Json(404, [error |-> "review not found"])]
       ELSE [@ EXCEPT !.pc = "find"]]
  /\ UNCHANGED <<watchlist, reviewLikes, reviews>>

\* const existingLike = await prisma.reviewLike.findUnique(...)
LikeFind(r) ==
  /\ reqs[r].pc = "find"
  /\ reqs[r].route = "/api/reviews/[id]/like"
  /\ reqs' = [reqs EXCEPT ![r].pc = "write",
                          ![r].existing = FindUnique(reviewLikes, reqs[r].key)]
  /\ UNCHANGED <<watchlist, reviewLikes, reviews>>

\* if (existingLike) delete by id, else create; a rejection is caught
LikeWrite(r) ==
  /\ reqs[r].pc = "write"
  /\ reqs[r].route = "/api/reviews/[id]/like"
  /\ LET run == reqs[r]
         resolves == IF run.existing # <<>>
                     THEN DeleteResolves(reviewLikes, run.existing[1].id)
                     ELSE CreateResolves(reviewLikes, run.key)
     IN /\ reviewLikes' =
             IF ~resolves THEN reviewLikes
             ELSE IF run.existing # <<>>
               THEN Delete(reviewLikes, run.existing[1].id)
             ELSE Create(reviewLikes, r, run.key)
        /\ reqs' = [reqs EXCEPT ![r] =
             IF resolves
             THEN [@ EXCEPT !.pc = "count",
                            !.after = Member(reviewLikes', run.key)]
             ELSE [@ EXCEPT !.pc = "done",
                            !.after = Member(reviewLikes', run.key),
                            !.response = CatchBlock(run.route)]]
  /\ UNCHANGED <<watchlist, reviews>>

\* const likeCount = await prisma.reviewLike.count(...); then the response
LikeCount(r) ==
  /\ reqs[r].pc = "count"
  /\ reqs[r].route = "/api/reviews/[id]/like"
  /\ reqs' = [reqs EXCEPT ![r] =
       [@ EXCEPT !.pc = "done",
                 !.response =
                   Json(200, [liked |-> reqs[r].existing = <<>>,
                              likeCount |-> Cardinality(
                                {row \in reviewLikes :
                                   row.key[2] = reqs[r].key[2]})])]]
  /\ UNCHANGED <<watchlist, reviewLikes, reviews>>

\* no other run is between its first store operation and its response
Alone(r) == \A o \in Runs \ {r} : reqs[o].pc \in {"idle", "done"}

\* a review written by u1, as POST /api/reviews stored it
SeedReview == [id |-> "r1", userId |-> "u1", title |-> <<"o">>, rating |-> 8]

\* the tables before any toggle, and no handler running
StoreInit ==
  /\ HookIdle
  /\ ClientIdle
  /\ ServerIdle
  /\ ModalIdle
  /\ env = "key"
  /\ watchlist = {}
  /\ reviewLikes = {}
  /\ reviews = {SeedReview}
  /\ reqs = [r \in Runs |-> IdleRun]

\* requests to POST /api/watchlist handled one after the other
WatchlistNext ==
  \/ \E r \in Runs, session \in Sessions, contentId \in ContentIdArgs,
        contentType \in ContentTypeArgs :
       Alone(r) /\ WatchlistPost(r, session, contentId, contentType)
  \/ \E r \in Runs : WatchlistFind(r)
  \/ \E r \in Runs : WatchlistWrite(r)

WatchlistSpec ==
  StoreInit /\ [][WatchlistNext /\ UNCHANGED <<hookVars, clientVars, serverVars, modalVars>>]_vars

\* requests to the two toggle routes handled concurrently
ToggleNext ==
  \/ \E r \in Runs, session \in Sessions, contentId \in ContentIdArgs,
        contentType \in ContentTypeArgs :
       WatchlistPost(r, session, contentId, contentType)
  \/ \E r \in Runs : WatchlistFind(r)
  \/ \E r \in Runs : WatchlistWrite(r)
  \/ \E r \in Runs, session \in Sessions, reviewId \in ReviewIds :
       LikePost(r, session, reviewId)
  \/ \E r \in Runs : LikeFindReview(r)
  \/ \E r \in Runs : LikeFind(r)
  \/ \E r \in Runs : LikeWrite(r)
  \/ \E r \in Runs : LikeCount(r)

ToggleSpec ==
  StoreInit /\ [][ToggleNext /\ UNCHANGED <<hookVars, clientVars, serverVars, modalVars>>]_vars

\* the runs of POST /api/watchlist that passed authentication and validation
\* for this key and have answered
TogglesDone(key) ==
  {r \in Runs : /\ reqs[r].pc = "done"
                /\ reqs[r].route = "/api/watchlist"
                /\ reqs[r].key = key}

WatchlistKeys == {<<u, 1, "movie">> : u \in UserIds}

\* C26: for an authenticated user and a valid (contentId, contentType), each
\* POST /api/watchlist handled on its own flips the membership of the key
\* and answers 200 with isInWatchlist equal to the membership after the
\* call, so an even number of toggles restores the original (empty) state.
WatchlistInvolution ==
  \A key \in WatchlistKeys :
    /\ \A r \in TogglesDone(key) :
         /\ reqs[r].response.status = 200
         /\ reqs[r].after = ~reqs[r].before
         /\ reqs[r].response.body.isInWatchlist = reqs[r].after
    /\ Member(watchlist, key) <=> Cardinality(TogglesDone(key)) % 2 = 1

\* two consecutive toggles of one key: added, then removed, store as before
WatchlistInvolutionWitness ==
  \E key \in WatchlistKeys :
    /\ Cardinality(TogglesDone(key)) = 2
    /\ \E r \in TogglesDone(key) : reqs[r].response.body.isInWatchlist
    /\ \E r \in TogglesDone(key) :
         ~reqs[r].response.body.isInWatchlist /\ reqs[r].before
    /\ ~Member(watchlist, key)


\* the flag a 2xx toggle response carries
ToggleFlag(run) ==
  IF run.route = "/api/watchlist" THEN run.response.body.isInWatchlist
  ELSE run.response.body.liked

\* C27: in any interleaving of two toggle requests of one user for one key
\* (POST /api/watchlist or POST /api/reviews/[id]/like), with find, create
\* and delete as separate store operations under the unique constraint, no
\* request that reached the store ends in HTTP 500, and the flag of each
\* 2xx response equals the membership that request's own write produced.
ConcurrentTogglesConsistent ==
  \A r \in Runs :
    (reqs[r].pc = "done" /\ reqs[r].key # <<>>)
      => /\ reqs[r].response.status # 500
         /\ reqs[r].response.status = 200
              => ToggleFlag(reqs[r]) = reqs[r].after


\* ------------------------------------------------------------------------
\* Store routes: PUT and DELETE /api/reviews/[id]
\* ------------------------------------------------------------------------
\* bodies of PUT: <<rating in half stars, title as its characters>>
ReviewBodies == {<<9, <<"a", " ">>>>, <<0, <<"a">>>>, <<9, <<" ">>>>, <<9, <<>>>>}

\* variant of the ownership check that lets every signed-in user pass
NotOwnerNever(existingReview, userId) == FALSE

\* existingReview.userId !== userId
NotOwner(existingReview, userId) == existingReview.userId # userId

\* rating < 0.5 || rating > 5, in half stars
RatingInvalid(rating) == rating < 1 \/ rating > 10

\* !title || title.trim().length === 0
TitleInvalid(title) == Len(title) = 0 \/ Len(Trim(title)) = 0

\* PUT or DELETE /api/reviews/[id] up to its first store operation
ReviewRequest(r, route, session, reviewId, body) ==
  /\ reqs[r].pc = "idle"
  /\ reqs' = [reqs EXCEPT ![r] =
       IF session = <<>>
         THEN Return([@ EXCEPT !.key = <<"", reviewId>>], route, session,
                     Json(401, [error |-> "login required"]))
       ELSE [@ EXCEPT !.pc = "find", !.route = route, !.userId = session,
                      !.key = <<session[1], reviewId>>, !.body = body]]
  /\ UNCHANGED <<watchlist, reviewLikes, reviews>>

\* findUnique, then the 404 and 403 answers, then the body's validation
ReviewFind(r) ==
  /\ reqs[r].pc = "find"
  /\ reqs[r].route \in {"PUT /api/reviews/[id]", "DELETE /api/reviews/[id]"}
  /\ LET run == reqs[r]
         existingReview == FindReview(run.key[2])
     IN reqs' = [reqs EXCEPT ![r] =
          IF existingReview = <<>>
            THEN [@ EXCEPT !.pc = "done",
                           !.response = Json(404, [error |-> "review not found"])]
          ELSE IF NotOwner(existingReview[1], run.userId[1])
            THEN [@ EXCEPT !.pc = "done", !.existing = existingReview,
                           !.response = Json(403, [error |-> "own reviews only"])]
          ELSE IF run.route = "PUT /api/reviews/[id]"
                  /\ (RatingInvalid(run.body[1]) \/ TitleInvalid(run.body[2]))
            THEN [@ EXCEPT !.pc = "done", !.existing = existingReview,
                           !.response = Json(400, [error |-> "invalid review"])]
          ELSE [@ EXCEPT !.pc = "write", !.existing = existingReview]]
  /\ UNCHANGED <<watchlist, reviewLikes, reviews>>

\* prisma.review.update({ where: { id }, data }) and the 200 answer
ReviewUpdate(r) ==
  /\ reqs[r].pc = "write"
  /\ reqs[r].route = "PUT /api/reviews/[id]"
  /\ LET run == reqs[r]
         stored == FindReview(run.key[2])
         updated == IF stored = <<>> THEN <<>>
                    ELSE <<[stored[1] EXCEPT !.rating = run.body[1],
                                             !.title = Trim(run.body[2])]>>
     IN /\ reviews' = IF stored = <<>> THEN reviews
                      ELSE (reviews \ {stored[1]}) \cup {updated[1]}
        /\ reqs' = [reqs EXCEPT ![r] =
             [@ EXCEPT !.pc = "done", !.wrote = (reviews' # reviews),
                       !.response = IF stored = <<>> THEN CatchBlock(run.route)
                                    ELSE Json(200, [review |-> updated[1]])]]
  /\ UNCHANGED <<watchlist, reviewLikes>>

\* prisma.review.delete({ where: { id } }) and the 200 answer
ReviewDelete(r) ==
  /\ reqs[r].pc = "write"
  /\ reqs[r].route = "DELETE /api/reviews/[id]"
  /\ LET run == reqs[r]
         stored == FindReview(run.key[2])
     IN /\ reviews' = {rv \in reviews : rv.id # run.key[2]}
        /\ reqs' = [reqs EXCEPT ![r] =
             [@ EXCEPT !.pc = "done", !.wrote = (reviews' # reviews),
                       !.response = IF stored = <<>> THEN CatchBlock(run.route)
                                    ELSE Json(200, [message |-> "review deleted"])]]
  /\ UNCHANGED <<watchlist, reviewLikes>>

\* requests to PUT and DELETE /api/reviews/[id] handled concurrently
ReviewNext ==
  \/ \E r \in Runs, session \in Sessions, reviewId \in ReviewIds,
        body \in ReviewBodies :
       ReviewRequest(r, "PUT /api/reviews/[id]", session, reviewId, body)
  \/ \E r \in Runs, session \in Sessions, reviewId \in ReviewIds :
       ReviewRequest(r, "DELETE /api/reviews/[id]", session, reviewId, <<>>)
  \/ \E r \in Runs : ReviewFind(r)
  \/ \E r \in Runs : ReviewUpdate(r)
  \/ \E r \in Runs : ReviewDelete(r)

ReviewSpec ==
  StoreInit /\ [][ReviewNext /\ UNCHANGED <<hookVars, clientVars, serverVars, modalVars>>]_vars

\* the runs of the two review routes that have answered
ReviewRunsDone ==
  {r \in Runs : reqs[r].pc = "done"
                /\ reqs[r].route \in {"PUT /api/reviews/[id]",
                                      "DELETE /api/reviews/[id]"}}

\* C28: a stored review is modified or deleted only by a PUT or DELETE
\* /api/reviews/[id] whose session user is its author; an unauthenticated
\* request gets 401, a request for an unknown id 404, a request by another
\* signed-in user 403, and none of the three changes the stored reviews.
ReviewOwnership ==
  /\ \A r \in ReviewRunsDone :
       LET run == reqs[r] IN
       /\ run.userId = <<>> => run.response.status = 401 /\ ~run.wrote
       /\ (run.userId # <<>> /\ run.key[2] # SeedReview.id)
            => run.response.status = 404 /\ ~run.wrote
       /\ (run.userId # <<>> /\ run.userId # <<SeedReview.userId>>
           /\ FindReview(run.key[2]) # <<>>)
            => run.response.status = 403 /\ ~run.wrote
       /\ run.wrote => run.userId = <<SeedReview.userId>>
  /\ (\A r \in Runs : ~reqs[r].wrote) => reviews = {SeedReview}

\* another user's PUT is refused with 403 and the author's PUT is applied
ReviewOwnershipWitness ==
  /\ \E r \in ReviewRunsDone :
       /\ reqs[r].userId = <<"u2">>
       /\ reqs[r].route = "PUT /api/reviews/[id]"
       /\ reqs[r].response.status = 403
  /\ \E r \in ReviewRunsDone :
       /\ reqs[r].userId = <<"u1">>
       /\ reqs[r].wrote
       /\ reqs[r].response.status = 200
  /\ reviews = {[SeedReview EXCEPT !.rating = 9, !.title = <<"a">>]}


\* ------------------------------------------------------------------------
\* SearchModal: debounced search against /api/search
\* ------------------------------------------------------------------------
\* fetch() calls issued by performSearch in one behaviour
MaxSearches == 2

\* values typed into the input, as their characters
InputTexts == {<<>>, <<" ">>, <<"a">>, <<"b", " ">>}
\* how a fetch() of /api/search ends
SearchOutcomes == {"ok", "okWithoutResults", "notOk", "rejected"}

\* data.results of the response to a query: one item naming the query
ResultsOf(trimmed) == <<trimmed>>

\* useAppStore().openSearch(), then the effect of [isSearchOpen]
openSearch ==
  /\ ~isSearchOpen
  /\ isSearchOpen' = TRUE
  /\ UNCHANGED <<modalQuery, modalResults, modalIsLoading, debounceRef,
                 searches, lastSearch>>

\* closeSearch(), then the effect of [isSearchOpen]: setQuery(""),
\* setResults([]); neither the timer nor a pending fetch is cancelled
closeSearch ==
  /\ isSearchOpen
  /\ isSearchOpen' = FALSE
  /\ modalQuery' = <<>>
  /\ modalResults' = <<>>
  /\ lastSearch' = [lastSearch EXCEPT !.cleared = TRUE]
  /\ UNCHANGED <<modalIsLoading, debounceRef, searches>>

\* the clear button next to the input: setQuery(""), setResults([])
ClearInput ==
  /\ isSearchOpen
  /\ modalQuery # <<>>
  /\ modalQuery' = <<>>
  /\ modalResults' = <<>>
  /\ lastSearch' = [lastSearch EXCEPT !.cleared = TRUE]
  /\ UNCHANGED <<isSearchOpen, modalIsLoading, debounceRef, searches>>

\* performSearch(searchQuery) up to its await
performSearch(searchQuery) ==
  LET trimmed == Trim(searchQuery) IN
  IF Len(trimmed) = 0
  THEN /\ modalResults' = <<>>
       /\ modalIsLoading' = FALSE
       /\ lastSearch' = [lastSearch EXCEPT !.cleared = TRUE]
       /\ UNCHANGED searches
  ELSE /\ lastSearch.n < MaxSearches
       /\ modalIsLoading' = TRUE
       /\ searches' = Append(searches, [n |-> lastSearch.n + 1,
                                        query |-> trimmed])
       /\ lastSearch' = [issued |-> TRUE, n |-> lastSearch.n + 1,
                         query |-> trimmed, cleared |-> FALSE,
                         outcome |-> "pending"]
       /\ UNCHANGED modalResults

\* onChange of the input: setQuery(value) and a fresh debounce timer
handleInputChange(value) ==
  /\ isSearchOpen
  /\ modalQuery' = value
  /\ debounceRef' = <<value>>
  /\ UNCHANGED <<isSearchOpen, modalResults, modalIsLoading, searches,
                 lastSearch>>

\* the debounce timer fires: performSearch(value)
DebounceFires ==
  /\ debounceRef # <<>>
  /\ performSearch(debounceRef[1])
  /\ debounceRef' = <<>>
  /\ UNCHANGED <<isSearchOpen, modalQuery>>

\* Enter in the input: handleSubmit(query)
handleSubmit ==
  /\ isSearchOpen
  /\ performSearch(modalQuery)
  /\ UNCHANGED <<isSearchOpen, modalQuery, debounceRef>>

\* the fetch of the i-th pending performSearch call settles
SearchResponse(i, how) ==
  /\ i \in 1..Len(searches)
  /\ modalResults' =
       CASE how = "ok" -> ResultsOf(searches[i].query)
         [] how = "okWithoutResults" -> <<>>
         [] how = "notOk" -> modalResults
         [] how = "rejected" -> <<>>
  /\ modalIsLoading' = FALSE
  /\ searches' = RemoveAt(searches, i)
  /\ lastSearch' = IF searches[i].n = lastSearch.n
                   THEN [lastSearch EXCEPT !.outcome = how]
                   ELSE lastSearch
  /\ UNCHANGED <<isSearchOpen, modalQuery, debounceRef>>

ModalNext ==
  \/ openSearch
  \/ closeSearch
  \/ ClearInput
  \/ \E value \in InputTexts : handleInputChange(value)
  \/ DebounceFires
  \/ handleSubmit
  \/ \E i \in 1..MaxSearches, how \in SearchOutcomes : SearchResponse(i, how)

ModalInit ==
  /\ HookIdle
  /\ ClientIdle
  /\ ServerIdle
  /\ StoreIdle
  /\ ModalIdle
  /\ env = "key"

ModalSpec ==
  ModalInit /\ [][ModalNext /\ UNCHANGED <<hookVars, clientVars, serverVars, storeVars>>]_vars

\* C30: for any sequence of input changes, Enter submissions, closing and
\* opening of the modal and out-of-order arrivals of responses, once no
\* request is outstanding (and no debounce timer is pending) the displayed
\* results are those of the most recently issued query, and they are empty
\* if the modal was closed or the input was cleared after that query was
\* issued.
LatestQueryShown ==
  (searches = <<>> /\ debounceRef = <<>> /\ lastSearch.issued)
    => IF lastSearch.cleared THEN modalResults = <<>>
       ELSE lastSearch.outcome = "ok"
              => modalResults = ResultsOf(lastSearch.query)

====
